---- MODULE Spec2Model ----
(***************************************************************************)
(* A model of the DAVIS inference helpers (davis_components/inference.py)  *)
(* and of the ROI box feature extractors (roi_box_feature_extractors.py).  *)
(*                                                                         *)
(* Every function of the two files is a call: the state records the last  *)
(* call made (op), the arguments it was given (args) and what it returned  *)
(* or raised (ret).  The functions keep no state between calls, so a       *)
(* behaviour is one call made on the freshly imported modules.  Scores are kept in tenths (0.7 is 7), box coordinates *)
(* in tenths of a pixel, tensors of the network by their shape.            *)
(***************************************************************************)
EXTENDS Integers, Sequences, FiniteSets, TLC

VARIABLES op, args, ret

vars == <<op, args, ret>>

\* ------------------------------------------------------------------ bounds

\* The longest BoxList (number of predictions) tried.
MaxLen == 3

\* Scores tried, in tenths: below, at and above the default threshold.
Scores == {0, 6, 7, 8, 10}

\* Explicit confidence thresholds tried, in tenths.
Thresholds == {0, 7, 8}

\* confidence_threshold=0.7, in tenths.
DefaultThreshold == 7

\* The largest class label tried by compute_colors_for_labels.
MaxLabel == 9

\* Class labels of the boxes drawn (DAVIS has two categories, and background).
OverlayLabels == {0, 1, 2}

\* Boxes drawn, (x1, y1, x2, y2) in tenths of a pixel.
Boxes == {<<0, 7, 12, 33>>, <<15, 0, 49, 26>>, <<108, 99, 110, 101>>}

\* Foreground probabilities of a mask pixel tried, in tenths.
MaskProbs == {2, 9}

\* The largest BACKBONE.OUT_CHANNELS, POOLER_RESOLUTION and MLP_HEAD_DIM tried.
MaxChannels == 2
MaxResolution == 2
MaxDim == 2

\* The largest number of feature levels the box pooler returns.
MaxLevels == 5

\* Instances and pixels of the masks voted on.
MaxInstances == 2
MaxPixels == 2

\* The modules are imported and no call has been made yet.
Idle == op = "import"

\* ------------------------------------------------------- tensor helpers

\* Sequences over S of length 0..n.
SeqsUpTo(S, n) == UNION {[1..k -> S] : k \in 0..n}

\* BoxList.get_field: the column of one field.
get_field(predictions, f) == [i \in 1..Len(predictions) |-> predictions[i][f]]

\* BoxList.__getitem__ with an index tensor: the rows named, in that order.
BoxListIndex(predictions, idx) == [k \in 1..Len(idx) |-> predictions[idx[k]]]

\* torch.nonzero(mask).squeeze(1): the positions of the true entries, ascending.
nonzero(mask) == SelectSeq([i \in 1..Len(mask) |-> i], LAMBDA i : mask[i])

\* The permutations of 1..n, as index tensors.
IndexPermutations(n) == {p \in [1..n -> 1..n] : \A i, j \in 1..n : i # j => p[i] # p[j]}

\* Tensor.sort(0, descending): the index tensors that put s in order.  The
\* sort is not stable, so equal values may come out in any order.
sort(s, descending) ==
    {p \in IndexPermutations(Len(s)) :
        \A i \in 1..(Len(s) - 1) :
            IF descending THEN s[p[i]] >= s[p[i + 1]] ELSE s[p[i]] <= s[p[i + 1]]}

\* ------------------------------------------------ select_top_predictions

\* A variant that keeps the input order: the sort is left out.
select_top_predictions_unsorted(predictions, confidence_threshold) ==
    LET scores == get_field(predictions, "scores")
        keep == nonzero([i \in 1..Len(scores) |-> scores[i] > confidence_threshold])
    IN  {BoxListIndex(predictions, keep)}

\* A variant that also keeps a score equal to the threshold (>= for >).
select_top_predictions_ge(predictions, confidence_threshold) ==
    LET scores == get_field(predictions, "scores")
        keep == nonzero([i \in 1..Len(scores) |-> scores[i] >= confidence_threshold])
        kept == BoxListIndex(predictions, keep)
        scores2 == get_field(kept, "scores")
    IN  {BoxListIndex(kept, idx) : idx \in sort(scores2, TRUE)}

\* The possible results of select_top_predictions (one per order of ties).
select_top_predictions(predictions, confidence_threshold) ==
    LET scores == get_field(predictions, "scores")
        keep == nonzero([i \in 1..Len(scores) |-> scores[i] > confidence_threshold])
        kept == BoxListIndex(predictions, keep)
        scores2 == get_field(kept, "scores")
    IN  {BoxListIndex(kept, idx) : idx \in sort(scores2, TRUE)}

\* A BoxList with a `scores` field; det is the identity of the detection.
ScoredBoxLists ==
    {[i \in 1..Len(s) |-> [det |-> i, scores |-> s[i]]] : s \in SeqsUpTo(Scores, MaxLen)}

\* select_top_predictions(predictions, t)
SelectTopPredictions ==
    /\ Idle
    /\ \E predictions \in ScoredBoxLists, t \in Thresholds :
        \E r \in select_top_predictions(predictions, t) :
            /\ op' = "select_top_predictions"
            /\ args' = [predictions |-> predictions, confidence_threshold |-> t,
                        defaulted |-> FALSE]
            /\ ret' = r

\* select_top_predictions(predictions): the threshold is the default.
SelectTopPredictionsDefault ==
    /\ Idle
    /\ \E predictions \in ScoredBoxLists :
        \E r \in select_top_predictions(predictions, DefaultThreshold) :
            /\ op' = "select_top_predictions"
            /\ args' = [predictions |-> predictions,
                        confidence_threshold |-> DefaultThreshold, defaulted |-> TRUE]
            /\ ret' = r

\* ---------------------------------------------- compute_colors_for_labels

\* ndarray.astype("uint8"): the value modulo 2^8.
astype_uint8(v) == v % 256

palette == <<2 ^ 25 - 1, 2 ^ 15 - 1, 2 ^ 21 - 1>>

\* A variant that reduces modulo 256, the uint8 range, instead of 255.
compute_colors_for_labels_mod256(labels) ==
    [i \in 1..Len(labels) |->
        [c \in 1..3 |-> astype_uint8((labels[i] * palette[c]) % 256)]]

\* labels[:, None] * palette, % 255, as uint8: one row of three per label.
compute_colors_for_labels(labels) ==
    [i \in 1..Len(labels) |->
        [c \in 1..3 |-> astype_uint8((labels[i] * palette[c]) % 255)]]

\* compute_colors_for_labels(labels)
ComputeColorsForLabels ==
    /\ Idle
    /\ \E labels \in SeqsUpTo(0..MaxLabel, MaxLen) :
        /\ op' = "compute_colors_for_labels"
        /\ args' = [labels |-> labels]
        /\ ret' = compute_colors_for_labels(labels)

\* ---------------------------------------------------------- overlay_boxes

\* Tensor.to(torch.int64) of a coordinate in tenths: truncation towards zero.
to_int64(v) == IF v >= 0 THEN v \div 10 ELSE -((-v) \div 10)

\* cv2.rectangle: the image with one more rectangle drawn on it.  An image
\* is the sequence of the shapes drawn on it so far.
rectangle(image, pt1, pt2, color, thickness) ==
    Append(image, [pt1 |-> pt1, pt2 |-> pt2, color |-> color, thickness |-> thickness])

Min(a, b) == IF a <= b THEN a ELSE b

\* The body of the loop `for box, color in zip(boxes, colors)`, from pair k.
RECURSIVE draw_boxes(_, _, _, _)
draw_boxes(image, boxes, colors, k) ==
    IF k > Min(Len(boxes), Len(colors)) THEN image
    ELSE LET box == [j \in 1..4 |-> to_int64(boxes[k][j])]
             top_left == SubSeq(box, 1, 2)
             bottom_right == SubSeq(box, 3, 4)
         IN  draw_boxes(rectangle(image, top_left, bottom_right, colors[k], 1),
                        boxes, colors, k + 1)

\* A variant that draws every box in the colour of the first label.
overlay_boxes_first_color(image, predictions) ==
    LET labels == get_field(predictions, "labels")
        boxes == get_field(predictions, "bbox")
        colors == compute_colors_for_labels(labels)
    IN  draw_boxes(image, boxes, [i \in 1..Len(colors) |-> colors[1]], 1)

overlay_boxes(image, predictions) ==
    LET labels == get_field(predictions, "labels")
        boxes == get_field(predictions, "bbox")
        colors == compute_colors_for_labels(labels)
    IN  draw_boxes(image, boxes, colors, 1)

\* Images handed in: a clean frame, and one with something drawn already.
Images ==
    {<<>>, <<[pt1 |-> <<0, 0>>, pt2 |-> <<1, 1>>, color |-> <<9, 9, 9>>, thickness |-> 2]>>}

LabelledBoxLists ==
    SeqsUpTo([bbox : Boxes, labels : OverlayLabels], MaxLen)

\* overlay_boxes(image, predictions)
OverlayBoxes ==
    /\ Idle
    /\ \E image \in Images, predictions \in LabelledBoxLists :
        /\ op' = "overlay_boxes"
        /\ args' = [image |-> image, predictions |-> predictions]
        /\ ret' = overlay_boxes(image, predictions)

\* ---------------------------------------- vote_pixelOfMask_for_annotation

\* Python's None, what a function whose body is only a docstring returns.
None == [type |-> "NoneType"]

\* The function has a docstring and no statements.
vote_pixelOfMask_for_annotation(masks, predictions) == None

\* masks[i][p]: the foreground probability of pixel p in instance i's mask.
MaskSets ==
    UNION {[1..n -> [1..MaxPixels -> MaskProbs]] : n \in 1..MaxInstances}

\* vote_pixelOfMask_for_annotation(masks, predictions)
VotePixelOfMaskForAnnotation ==
    /\ Idle
    /\ \E masks \in MaskSets :
        \E scores \in [1..Len(masks) -> Scores] :
            LET predictions == [i \in 1..Len(masks) |-> [det |-> i, scores |-> scores[i]]]
            IN  /\ op' = "vote_pixelOfMask_for_annotation"
                /\ args' = [masks |-> masks, predictions |-> predictions]
                /\ ret' = vote_pixelOfMask_for_annotation(masks, predictions)

\* ------------------------------------------------ network layer helpers

\* A result: a value returned, or the exception raised.
Returned(v) == [raised |-> "none", value |-> v]
Raised(e) == [raised |-> e, value |-> <<>>]

RECURSIVE Product(_)
Product(shape) == IF shape = <<>> THEN 1 ELSE Head(shape) * Product(Tail(shape))

\* nn.Linear(in_features, out_features)
Linear(in_features, out_features) ==
    [in_features |-> in_features, out_features |-> out_features]

\* Tensor.view(size0, -1) on a tensor of the given shape: the shape inferred,
\* or RuntimeError when -1 is ambiguous (size0 = 0) or the element count is
\* not a multiple of size0.
view(shape, size0) ==
    IF size0 = 0 \/ Product(shape) % size0 # 0 THEN Raised("RuntimeError")
    ELSE Returned(<<size0, Product(shape) \div size0>>)

\* Applying a Linear layer: the last dimension must be its in_features.
linear(layer, shape) ==
    IF Len(shape) = 0 \/ shape[Len(shape)] # layer.in_features
    THEN Raised("RuntimeError")
    ELSE Returned([shape EXCEPT ![Len(shape)] = layer.out_features])

Max(a, b) == IF a >= b THEN a ELSE b

\* The shape of torch.max(a, b) of two tensors: the shapes broadcast, aligned
\* at the last dimension, or RuntimeError when a pair of extents differs and
\* neither is 1.
broadcast(s1, s2) ==
    LET n == Max(Len(s1), Len(s2))
        pad(sh) == [k \in 1..n |-> IF k <= n - Len(sh) THEN 1 ELSE sh[k - (n - Len(sh))]]
        a == pad(s1)
        b == pad(s2)
    IN  IF \A k \in 1..n : a[k] = b[k] \/ a[k] = 1 \/ b[k] = 1
        THEN Returned([k \in 1..n |-> Max(a[k], b[k])])
        ELSE Raised("RuntimeError")

\* The configuration read by the extractors.
Cfgs(names) ==
    [FEATURE_EXTRACTOR : names, OUT_CHANNELS : 1..MaxChannels,
     POOLER_RESOLUTION : 1..MaxResolution, MLP_HEAD_DIM : 1..MaxDim]

\* Proposal boxes, by width and height: the pooled shape ignores them.
ProposalSizes == {<<1, 1>>, <<40, 25>>}

\* The box pooler on the proposals of one image: every proposal is pooled to
\* OUT_CHANNELS x resolution x resolution, whatever its size.
pooler(cfg, proposals) ==
    <<Len(proposals), cfg.OUT_CHANNELS, cfg.POOLER_RESOLUTION, cfg.POOLER_RESOLUTION>>

\* ---------------------------------------- ResNet50Conv5ROIFeatureExtractor

ResNet50Conv5ROIFeatureExtractor(config) ==
    [class |-> "ResNet50Conv5ROIFeatureExtractor", cfg |-> config,
     pooler |-> [output_size |-> <<config.POOLER_RESOLUTION, config.POOLER_RESOLUTION>>]]

\* ------------------------------------------------ FPN2MLPFeatureExtractor

\* A variant whose fc6 is sized for resolution, not resolution squared.
FPN2MLPFeatureExtractor_unsquared(cfg) ==
    LET resolution == cfg.POOLER_RESOLUTION
        input_size == cfg.OUT_CHANNELS * resolution
        representation_size == cfg.MLP_HEAD_DIM
    IN  [class |-> "FPN2MLPFeatureExtractor", cfg |-> cfg,
         fc6 |-> Linear(input_size, representation_size),
         fc7 |-> Linear(representation_size, representation_size)]

\* FPN2MLPFeatureExtractor.__init__
FPN2MLPFeatureExtractor(cfg) ==
    LET resolution == cfg.POOLER_RESOLUTION
        input_size == cfg.OUT_CHANNELS * resolution ^ 2
        representation_size == cfg.MLP_HEAD_DIM
    IN  [class |-> "FPN2MLPFeatureExtractor", cfg |-> cfg,
         fc6 |-> Linear(input_size, representation_size),
         fc7 |-> Linear(representation_size, representation_size)]

\* FPN2MLPFeatureExtractor.forward on the pooled features x: the result, and
\* the shape x had after x.view(x.size(0), -1).
FPN2MLP_forward(self, x) ==
    LET flat == view(x, x[1])
        h6 == IF flat.raised = "none" THEN linear(self.fc6, flat.value) ELSE flat
        h7 == IF h6.raised = "none" THEN linear(self.fc7, h6.value) ELSE h6
    IN  [raised |-> h7.raised, value |-> h7.value, flat |-> flat.value]

\* FPN2MLPFeatureExtractor(cfg)(x, proposals)
FPN2MLPForward ==
    /\ Idle
    /\ \E cfg \in Cfgs({"FPN2MLPFeatureExtractor"}),
          proposals \in SeqsUpTo(ProposalSizes, MaxLen) :
        LET self == FPN2MLPFeatureExtractor(cfg)
        IN  /\ op' = "FPN2MLPFeatureExtractor.forward"
            /\ args' = [self |-> self, proposals |-> proposals]
            /\ ret' = FPN2MLP_forward(self, pooler(cfg, proposals))

\* ----------------------------- FPNAdaptiveFeaturePoolingPFeatureExtractor

\* "box_fc6_parallel{}".format(layer_idx)
layer_name(layer_idx) == "box_fc6_parallel" \o ToString(layer_idx)

\* FPNAdaptiveFeaturePoolingPFeatureExtractor.__init__
FPNAdaptiveFeaturePoolingPFeatureExtractor(cfg) ==
    LET resolution == cfg.POOLER_RESOLUTION
        input_size == cfg.OUT_CHANNELS * resolution ^ 2
        representation_size == cfg.MLP_HEAD_DIM
        parallel_layers == <<representation_size, representation_size,
                             representation_size, representation_size>>
    IN  [class |-> "FPNAdaptiveFeaturePoolingPFeatureExtractor", cfg |-> cfg,
         parallel_block |-> [k \in 1..Len(parallel_layers) |-> layer_name(k)],
         modules |-> [name \in {layer_name(k) : k \in 1..Len(parallel_layers)} |->
                         LET k == CHOOSE j \in 1..Len(parallel_layers) :
                                      layer_name(j) = name
                         IN  Linear(input_size, parallel_layers[k])],
         fc7 |-> Linear(representation_size, representation_size)]

\* What the adaptive box pooler hands to forward: one pooled tensor per
\* feature level, in a container that is indexed by level, has a length and
\* answers size(0).  A tensor is its shape and the parts it was made of: the
\* level it was pooled from and the layer that level went through ("raw"
\* when none did).
pooled_levels(cfg, proposals, n_levels, size0) ==
    [size0 |-> size0,
     levels |-> [l \in 1..n_levels |->
                    [shape |-> pooler(cfg, proposals), parts |-> {<<l, "raw">>}]]]

\* The loop `for idx, layer_name in enumerate(self.parallel_block)`, from
\* idx (counted from 1 here): the container with x[idx] flattened and put
\* through its layer and ReLU, or what the loop raised.
RECURSIVE fc6_loop(_, _, _)
fc6_loop(self, x, idx) ==
    IF idx > Len(self.parallel_block) THEN Returned(x)
    ELSE IF idx > Len(x.levels) THEN Raised("IndexError")
    ELSE LET flat == view(x.levels[idx].shape, x.size0)
             h == IF flat.raised = "none" THEN linear(self.modules[self.parallel_block[idx]], flat.value)
                  ELSE flat
         IN  IF h.raised # "none" THEN Raised(h.raised)
             ELSE fc6_loop(self,
                           [x EXCEPT !.levels[idx] =
                               [shape |-> h.value,
                                parts |-> {<<idx, self.parallel_block[idx]>>}]],
                           idx + 1)

\* The loop `for i in range(1, len(x))`, from i (counted from 1 here): x[0]
\* after the maxima taken, or what torch.max raised.
RECURSIVE max_loop(_, _)
max_loop(x, i) ==
    IF i > Len(x.levels) THEN Returned(x.levels[1])
    ELSE LET shape == broadcast(x.levels[1].shape, x.levels[i].shape)
         IN  IF shape.raised # "none" THEN Raised(shape.raised)
             ELSE max_loop([x EXCEPT !.levels[1] =
                               [shape |-> shape.value,
                                parts |-> x.levels[1].parts \cup x.levels[i].parts]],
                           i + 1)

\* FPNAdaptiveFeaturePoolingPFeatureExtractor.forward on the pooler's
\* result x: the shape returned or the exception raised, the parts of the
\* tensors that entered the max fusion (none when the fc6 loop raised), and
\* the parts of the tensor given to fc7 (none when it was not reached).
FPNAdaptive_forward(self, x) ==
    LET after_fc6 == fc6_loop(self, x, 1)
        fused == IF after_fc6.raised = "none" THEN max_loop(after_fc6.value, 2)
                 ELSE after_fc6
        out == IF fused.raised = "none" THEN linear(self.fc7, fused.value.shape)
               ELSE fused
    IN  [raised |-> out.raised, value |-> out.value,
         entered |-> IF after_fc6.raised = "none"
                     THEN UNION {after_fc6.value.levels[l].parts :
                                    l \in 1..Len(after_fc6.value.levels)}
                     ELSE {},
         parts |-> IF fused.raised = "none" THEN fused.value.parts ELSE {}]

\* FPNAdaptiveFeaturePoolingPFeatureExtractor(cfg)(x, proposals).  The pooler
\* is built from cfg elsewhere: the number of levels it returns is an input,
\* and so is what its result answers to size(0), the number of proposals or
\* (a tensor stacked by level) the number of levels.
FPNAdaptiveForward ==
    /\ Idle
    /\ \E cfg \in Cfgs({"FPNAdaptiveFeaturePoolingPFeatureExtractor"}),
          proposals \in SeqsUpTo(ProposalSizes, MaxLen),
          n_levels \in 1..MaxLevels :
        \E size0 \in {Len(proposals), n_levels} :
            LET self == FPNAdaptiveFeaturePoolingPFeatureExtractor(cfg)
            IN  /\ op' = "FPNAdaptiveFeaturePoolingPFeatureExtractor.forward"
                /\ args' = [self |-> self, proposals |-> proposals,
                            n_levels |-> n_levels, size0 |-> size0]
                /\ ret' = FPNAdaptive_forward(
                              self, pooled_levels(cfg, proposals, n_levels, size0))

\* ------------------------------------------ make_roi_box_feature_extractor

\* The keys of _ROI_BOX_FEATURE_EXTRACTORS; each names the class it maps to.
ROI_BOX_FEATURE_EXTRACTORS ==
    {"ResNet50Conv5ROIFeatureExtractor", "FPN2MLPFeatureExtractor",
     "FPNAdaptiveFeaturePoolingPFeatureExtractor"}

\* Calling the class registered under a key.
func(key, cfg) ==
    CASE key = "ResNet50Conv5ROIFeatureExtractor" ->
            ResNet50Conv5ROIFeatureExtractor(cfg)
      [] key = "FPN2MLPFeatureExtractor" ->
            FPN2MLPFeatureExtractor(cfg)
      [] key = "FPNAdaptiveFeaturePoolingPFeatureExtractor" ->
            FPNAdaptiveFeaturePoolingPFeatureExtractor(cfg)

\* A variant that falls back to FPN2MLPFeatureExtractor for an unknown name.
make_roi_box_feature_extractor_fallback(cfg) ==
    IF cfg.FEATURE_EXTRACTOR \in ROI_BOX_FEATURE_EXTRACTORS
    THEN Returned(func(cfg.FEATURE_EXTRACTOR, cfg))
    ELSE Returned(func("FPN2MLPFeatureExtractor", cfg))

\* The dictionary lookup raises KeyError for a key it does not hold.
make_roi_box_feature_extractor(cfg) ==
    IF cfg.FEATURE_EXTRACTOR \in ROI_BOX_FEATURE_EXTRACTORS
    THEN Returned(func(cfg.FEATURE_EXTRACTOR, cfg))
    ELSE Raised("KeyError")

\* Values of cfg.MODEL.ROI_BOX_HEAD.FEATURE_EXTRACTOR tried: the registered
\* names, and names that differ from one by a letter, by case, or are empty.
ExtractorNames ==
    ROI_BOX_FEATURE_EXTRACTORS \cup
        {"FPN2MLPFeatureExtractors", "fpn2mlpfeatureextractor", "ResNet50Conv5", ""}

\* make_roi_box_feature_extractor(cfg)
MakeRoiBoxFeatureExtractor ==
    /\ Idle
    /\ \E cfg \in Cfgs(ExtractorNames) :
        /\ op' = "make_roi_box_feature_extractor"
        /\ args' = [cfg |-> cfg]
        /\ ret' = make_roi_box_feature_extractor(cfg)

\* ------------------------------------------------------------ the system

Init ==
    /\ op = "import"
    /\ args = <<>>
    /\ ret = <<>>

Next ==
    \/ SelectTopPredictions
    \/ SelectTopPredictionsDefault
    \/ ComputeColorsForLabels
    \/ OverlayBoxes
    \/ VotePixelOfMaskForAnnotation
    \/ FPN2MLPForward
    \/ FPNAdaptiveForward
    \/ MakeRoiBoxFeatureExtractor

Spec == Init /\ [][Next]_vars

\* ------------------------------------------------------------- properties

\* The threshold a call of select_top_predictions compares with.
ThresholdUsed == IF args.defaulted THEN 7 ELSE args.confidence_threshold

\* C1: select_top_predictions returns exactly the predictions whose score is
\* strictly greater than the threshold: every returned prediction is one of
\* the input and has score > t, every input prediction with score > t is
\* returned exactly once, one whose score equals t (or is below) is dropped,
\* the threshold is 0.7 when none is given, and the result is empty when no
\* score exceeds t.
C1_SelectsStrictlyAbove ==
    op = "select_top_predictions" =>
        LET p == args.predictions
            t == ThresholdUsed
        IN  /\ \A k \in 1..Len(ret) :
                    /\ ret[k].scores > t
                    /\ ret[k].det \in 1..Len(p)
                    /\ ret[k] = p[ret[k].det]
            /\ \A i \in 1..Len(p) :
                    Cardinality({k \in 1..Len(ret) : ret[k].det = i})
                        = IF p[i].scores > t THEN 1 ELSE 0
            /\ (\A i \in 1..Len(p) : p[i].scores <= t) => ret = <<>>

\* A default-threshold call given a score above 0.7, one equal to it and one
\* below it: one prediction comes back.
C1_Witness ==
    /\ op = "select_top_predictions"
    /\ args.defaulted
    /\ Len(args.predictions) = 3
    /\ args.predictions[1].scores = 7
    /\ args.predictions[2].scores = 8
    /\ args.predictions[3].scores = 6
    /\ Len(ret) = 1

\* C2: select_top_predictions returns the predictions in descending order of
\* score, whatever order they came in.
C2_DescendingOrder ==
    op = "select_top_predictions" =>
        \A k \in 1..(Len(ret) - 1) : ret[k].scores >= ret[k + 1].scores

\* Three predictions given in ascending order of score all pass the
\* threshold and come back reversed.
C2_Witness ==
    /\ op = "select_top_predictions"
    /\ Len(args.predictions) = 3
    /\ args.predictions[1].scores < args.predictions[2].scores
    /\ args.predictions[2].scores < args.predictions[3].scores
    /\ Len(ret) = 3
    /\ ret[1].det = 3
    /\ ret[3].det = 1

\* The pixel score of instance i at pixel px: the foreground probability in
\* the instance's mask times the instance's class probability.
PixelScore(i, px) == args.masks[i][px] * args.predictions[i].scores

\* C3: vote_pixelOfMask_for_annotation assigns every pixel to exactly one
\* instance, one with the maximum pixel score, and returns the resulting
\* predictions as a BoxList.
C3_VotesMaxPixelScore ==
    op = "vote_pixelOfMask_for_annotation" =>
        /\ ret.type = "BoxList"
        /\ \A px \in 1..MaxPixels :
              /\ ret.pixel_instance[px] \in 1..Len(args.masks)
              /\ \A i \in 1..Len(args.masks) :
                    PixelScore(ret.pixel_instance[px], px) >= PixelScore(i, px)

\* C4: compute_colors_for_labels returns one row of three channels per
\* label, channel c of row i being (labels[i] * palette[c]) mod 255 with
\* palette (2^25 - 1, 2^15 - 1, 2^21 - 1); every channel lies in 0..254,
\* label 0 gets (0, 0, 0), and equal labels get equal colours.
C4_FixedColorPerLabel ==
    op = "compute_colors_for_labels" =>
        LET labels == args.labels
            pal == <<33554431, 32767, 2097151>>
        IN  /\ Len(ret) = Len(labels)
            /\ \A i \in 1..Len(labels) :
                    /\ Len(ret[i]) = 3
                    /\ \A c \in 1..3 :
                            /\ ret[i][c] = (labels[i] * pal[c]) % 255
                            /\ ret[i][c] \in 0..254
                    /\ labels[i] = 0 => ret[i] = <<0, 0, 0>>
                    /\ \A j \in 1..Len(labels) :
                            labels[i] = labels[j] => ret[i] = ret[j]

\* The same label at the two ends of the vector, another one between them,
\* and a channel whose product has wrapped around 255.
C4_Witness ==
    /\ op = "compute_colors_for_labels"
    /\ Len(args.labels) = 3
    /\ args.labels[1] = 3
    /\ args.labels[2] = 0
    /\ args.labels[3] = 3
    /\ ret[1] = <<3, 126, 93>>
    /\ ret[3] = ret[1]

\* C5: make_roi_box_feature_extractor builds the class registered under
\* cfg.MODEL.ROI_BOX_HEAD.FEATURE_EXTRACTOR and passes it cfg; for a name
\* that is none of the three registered keys it raises a lookup error and
\* constructs nothing.
C5_BuildsRegisteredClass ==
    op = "make_roi_box_feature_extractor" =>
        LET name == args.cfg.FEATURE_EXTRACTOR
        IN  IF name \in {"ResNet50Conv5ROIFeatureExtractor", "FPN2MLPFeatureExtractor",
                         "FPNAdaptiveFeaturePoolingPFeatureExtractor"}
            THEN /\ ret.raised = "none"
                 /\ ret.value.class = name
                 /\ ret.value.cfg = args.cfg
            ELSE /\ ret.raised = "KeyError"
                 /\ ret.value = <<>>

\* A name one letter away from a registered one raises KeyError.
C5_Witness ==
    /\ op = "make_roi_box_feature_extractor"
    /\ args.cfg.FEATURE_EXTRACTOR = "FPN2MLPFeatureExtractors"
    /\ ret.raised = "KeyError"

\* What C6 says of one call of FPN2MLPFeatureExtractor.forward: the
\* flattened row length is OUT_CHANNELS * resolution^2, the input size of
\* fc6, and the output is (N, MLP_HEAD_DIM).
FPN2MLPFixedSize ==
    LET cfg == args.self.cfg
        n == Len(args.proposals)
    IN  /\ ret.raised = "none"
        /\ ret.flat = <<n, cfg.OUT_CHANNELS * cfg.POOLER_RESOLUTION * cfg.POOLER_RESOLUTION>>
        /\ ret.flat[2] = args.self.fc6.in_features
        /\ ret.value = <<n, cfg.MLP_HEAD_DIM>>

\* C6 as stated: for every N >= 0, FPN2MLPFeatureExtractor.forward turns
\* the pooled features of N proposals into N rows of length
\* OUT_CHANNELS * resolution^2, the input size of fc6, and returns shape
\* (N, MLP_HEAD_DIM).
C6_FixedSizeRowsAnyN ==
    op = "FPN2MLPFeatureExtractor.forward" => FPN2MLPFixedSize

\* C6 as amended: the same for every N >= 1; with no proposal at all the
\* call raises RuntimeError, view(0, -1) being ambiguous.
C6_FixedSizeRows ==
    op = "FPN2MLPFeatureExtractor.forward" =>
        IF Len(args.proposals) >= 1 THEN FPN2MLPFixedSize
        ELSE ret.raised = "RuntimeError"

\* Two proposals of different sizes, pooled at resolution 2 from 2 channels,
\* come out as two rows.
C6_Witness ==
    /\ op = "FPN2MLPFeatureExtractor.forward"
    /\ Len(args.proposals) = 2
    /\ args.proposals[1] # args.proposals[2]
    /\ args.self.cfg.POOLER_RESOLUTION = 2
    /\ args.self.cfg.OUT_CHANNELS = 2
    /\ ret.raised = "none"
    /\ ret.flat = <<2, 8>>

\* C7: overlay_boxes draws one rectangle per prediction, in prediction
\* order, on top of what the image held: the i-th from the i-th box's
\* coordinates as integers, in the colour of the i-th label, thickness 1;
\* with no prediction the image comes back unchanged.
C7_OneRectanglePerPrediction ==
    op = "overlay_boxes" =>
        LET image == args.image
            p == args.predictions
        IN  /\ Len(ret) = Len(image) + Len(p)
            /\ SubSeq(ret, 1, Len(image)) = image
            /\ \A i \in 1..Len(p) :
                    ret[Len(image) + i] =
                        [pt1 |-> <<p[i].bbox[1] \div 10, p[i].bbox[2] \div 10>>,
                         pt2 |-> <<p[i].bbox[3] \div 10, p[i].bbox[4] \div 10>>,
                         color |-> compute_colors_for_labels(<<p[i].labels>>)[1],
                         thickness |-> 1]
            /\ Len(p) = 0 => ret = image

\* Two boxes of different labels drawn on an image that held a shape.
C7_Witness ==
    /\ op = "overlay_boxes"
    /\ Len(args.image) = 1
    /\ Len(args.predictions) = 2
    /\ args.predictions[1].labels = 2
    /\ args.predictions[2].labels = 1
    /\ Len(ret) = 3
    /\ ret[2].color # ret[3].color

\* The fc6 outputs of all the levels the pooler returned, each from its own
\* layer box_fc6_parallel<level>.
AllLevelsThroughFc6 == {<<l, layer_name(l)>> : l \in 1..args.n_levels}

\* C8: in FPNAdaptiveFeaturePoolingPFeatureExtractor.forward, for every
\* number of levels the pooler returns, the tensors that enter the max
\* fusion are the fc6 outputs of all the levels, each level through its own
\* layer (none enters untransformed, none is left out), and what fc7 is
\* given is the maximum over exactly those.
C8_EveryLevelThroughFc6 ==
    op = "FPNAdaptiveFeaturePoolingPFeatureExtractor.forward" =>
        /\ ret.entered # {} => ret.entered = AllLevelsThroughFc6
        /\ ret.parts # {} => ret.parts = AllLevelsThroughFc6

====
